---- MODULE Spec2Model ----
(***************************************************************************)
(* State-machine model of model/measure-sweeping-revocation.py: the        *)
(* allocator address-space model (AllocatorAddrSpaceModel), its two        *)
(* interval stores, and the Naive and Compacting sweeping revokers that    *)
(* subscribe to its 'reused' notifications.                                *)
(*                                                                         *)
(* The program is configured as the script configures it by default: one   *)
(* subscriber (the revoker), no allocation-map output.  Addresses are      *)
(* 0 .. MaxAddr-1 instead of 0 .. 2^64-1.                                  *)
(***************************************************************************)
EXTENDS Integers, Sequences, FiniteSets, TLC

\* ------------------------------------------------------------------ bounds
\* Addresses are 0 .. MaxAddr-1; interval ends go up to MaxAddr.
MaxAddr == 3
\* Address-space size samples delivered by the driver are 0 .. MaxSize.
MaxSize == 1
\* Trace events are replayed while swept + size <= MaxSwept.
MaxSwept == 2
\* Ceilings tried by the specification with a configured sweep ceiling.
MaxCeiling == 2
\* Trace timestamps of the output specification are 0 .. MaxTime (ms).
MaxTime == 305
\* Pools rendered by the allocation map have sizes 1 .. MaxPool.
MaxPool == 125
\* Chunks are classified in a map of the addresses 0 .. MaxChunk-1.
MaxChunk == 5
\* The exporter's trace has the addresses 0 .. MaxTva-1 (0: the null pointer)
\* and creates at most MaxOid objects.
MaxTva == 3
MaxOid == 3
\* The accounting model is run alone while its allocd_size is at most MaxAccount.
MaxAccount == 8

\* BaseSweepingRevoker.__init__(capacity_ivals=2**64): the default ceiling.
\* 2**64 is beyond TLC's integers; no batch of the model reaches either value.
capacity_ivals_default == 2147483647

Addrs == 0 .. (MaxAddr - 1)
Ranges == {r \in (0 .. MaxAddr) \X (0 .. MaxAddr) : r[1] < r[2]}
\* revoked(*bes) of a trace event: one range or a list of two ranges
RevokeBatches == {<<r>> : r \in Ranges} \cup {<<r1, r2>> : r1 \in Ranges, r2 \in Ranges}

\* mapd/unmapd events cover large regions: all, or all but one, of the addresses
MapRanges == {r \in Ranges : r[2] - r[1] >= MaxAddr - 1}

Min(a, b) == IF a <= b THEN a ELSE b
Max(a, b) == IF a >= b THEN a ELSE b

\* ------------------------------------------------------------ AddrIval
AddrIval(begin, end, state) == [begin |-> begin, end |-> end, data |-> state]

\* intervaltree.Interval.overlaps(other), lt(other), gt(other)
IvalOverlaps(a, b) == b.begin < a.end /\ b.end > a.begin
IvalLt(a, b) == a.end <= b.begin
IvalGt(a, b) == a.begin >= b.end

RECURSIVE SumLen(_)
\* sum(i.end - i.begin for i in S)
SumLen(S) ==
    IF S = {} THEN 0
    ELSE LET i == CHOOSE x \in S : TRUE
         IN (i.end - i.begin) + SumLen(S \ {i})

\* ------------------------------------------------- IntervalTree (_addr_ivals)
\* tree[begin:end]: the stored intervals overlapping [begin, end), unclipped
TreeOverlap(t, begin, end) == {i \in t : i.begin < end /\ i.end > begin}
\* tree[point]: the stored intervals covering point
TreeAt(t, point) == {i \in t : i.begin <= point /\ point < i.end}
\* tree.chop(begin, end): cut [begin, end) out of every stored interval
TreeChop(t, begin, end) ==
    (t \ TreeOverlap(t, begin, end))
        \cup {AddrIval(i.begin, begin, i.data) :
                 i \in {j \in TreeOverlap(t, begin, end) : j.begin < begin}}
        \cup {AddrIval(end, i.end, i.data) :
                 i \in {j \in TreeOverlap(t, begin, end) : j.end > end}}

\* intervaltree_query_checked: ok is the assertion len(ival) <= 1
intervaltree_query_checked(t, point) ==
    [ok |-> Cardinality(TreeAt(t, point)) <= 1, ival |-> TreeAt(t, point)]

\* ------------------------------------------- IntervalMap (__addr_ivals)
\* The coalesced map is kept as its value at every address ("None": no data);
\* its stored intervals are the maximal runs of one value.
IntervalMapInit == [a \in Addrs |-> "None"]
IntervalMapAdd(im, ival) ==
    [a \in Addrs |-> IF ival.begin <= a /\ a < ival.end THEN ival.data ELSE im[a]]

\* the stored intervals of the map: the maximal runs of one value, those
\* without data left out as addr_ivals_coalesced_sorted leaves them out
IntervalMapItems(im) ==
    {AddrIval(b, e, im[b]) : <<b, e>> \in
        {r \in Ranges :
            /\ im[r[1]] # "None"
            /\ \A a \in r[1] .. (r[2] - 1) : im[a] = im[r[1]]
            /\ (r[1] > 0 => im[r[1] - 1] # im[r[1]])
            /\ (r[2] < MaxAddr => im[r[2]] # im[r[1]])}}

\* ------------------------------------------ BaseIntervalAddrSpaceModel
\* The allocator model's state as one value m:
\*   m.tree (_addr_ivals), m.imap (__addr_ivals), m.allocd_size, m.mapd_size
\* sum(i.end - i.begin for i in im[begin:end] if i.state is state): the slice
\* holds the runs clipped to [begin, end), so the sum counts the addresses
StateSize(im, begin, end, state) ==
    Cardinality({a \in Addrs : begin <= a /\ a < end /\ im[a] = state})

\* variant: the aggregates are adjusted by the size of the interval entering
\* the map, whatever it replaces
Update_entering(m, ival) ==
    [m EXCEPT !.imap = IntervalMapAdd(m.imap, ival),
              !.mapd_size = m.mapd_size
                              + (IF ival.data = "MAPD" THEN ival.end - ival.begin ELSE 0),
              !.allocd_size = m.allocd_size
                              + (IF ival.data = "ALLOCD" THEN ival.end - ival.begin ELSE 0)]
\* _update(ival)
Update(m, ival) ==
    LET imap_new == IntervalMapAdd(m.imap, ival)
        mapd_size_old == StateSize(m.imap, ival.begin - 1, ival.end + 1, "MAPD")
        allocd_size_old == StateSize(m.imap, ival.begin - 1, ival.end + 1, "ALLOCD")
        mapd_size_new == StateSize(imap_new, ival.begin - 1, ival.end + 1, "MAPD")
        allocd_size_new == StateSize(imap_new, ival.begin - 1, ival.end + 1, "ALLOCD")
    IN [m EXCEPT !.imap = imap_new,
                 !.mapd_size = m.mapd_size + mapd_size_new - mapd_size_old,
                 !.allocd_size = m.allocd_size + allocd_size_new - allocd_size_old]


\* --------------------------------------------- AllocatorAddrSpaceModel
AllocatorInit ==
    [tree |-> {}, imap |-> IntervalMapInit, allocd_size |-> 0, mapd_size |-> 0]

\* variant: only the byte at begin is freed
freed_onebyte(m, begin) ==
    LET q == intervaltree_query_checked(m.tree, begin)
    IN IF ~q.ok THEN [ok |-> FALSE, m |-> m]
       ELSE LET interval == AddrIval(begin, begin + 1, "FREED")
                updated == Update([m EXCEPT !.tree = TreeChop(m.tree, begin, begin + 1)],
                                  interval)
            IN [ok |-> TRUE, m |-> [updated EXCEPT !.tree = updated.tree \cup {interval}]]
\* freed(begin); ok is the assertion of the checked point query
freed(m, begin) ==
    LET q == intervaltree_query_checked(m.tree, begin)
    IN IF ~q.ok THEN [ok |-> FALSE, m |-> m]
       ELSE LET found == q.ival # {}
                old == CHOOSE i \in q.ival : TRUE
                interval == IF found THEN AddrIval(old.begin, old.end, "FREED")
                            ELSE AddrIval(begin, begin + 1, "FREED")
                removed == IF found THEN [m EXCEPT !.tree = m.tree \ {old}] ELSE m
                updated == Update(removed, interval)
            IN [ok |-> TRUE, m |-> [updated EXCEPT !.tree = updated.tree \cup {interval}]]

\* the first loop of revoked(*bes): no given range may overlap an ALLOCD interval
RevokedPrecondition(t, bes) ==
    \A k \in 1 .. Len(bes) :
        {i \in TreeOverlap(t, bes[k][1], bes[k][2]) : i.data = "ALLOCD"} = {}

RECURSIVE RevokedApply(_, _)
\* the second loop of revoked(*bes)
RevokedApply(m, bes) ==
    IF bes = <<>> THEN m
    ELSE LET ival == AddrIval(Head(bes)[1], Head(bes)[2], "REVOKED")
             updated == Update(m, ival)
             chopped == TreeChop(updated.tree, ival.begin, ival.end)
         IN RevokedApply([updated EXCEPT !.tree = chopped \cup {ival}], Tail(bes))

RECURSIVE revoked_interleaved(_, _)
\* variant: each range is checked just before it is applied
revoked_interleaved(m, bes) ==
    IF bes = <<>> THEN [ok |-> TRUE, m |-> m]
    ELSE IF ~RevokedPrecondition(m.tree, <<Head(bes)>>) THEN [ok |-> FALSE, m |-> m]
    ELSE revoked_interleaved(RevokedApply(m, <<Head(bes)>>), Tail(bes))

\* revoked(*bes); ok is the assertion 'still allocated'
revoked(m, bes) ==
    IF ~RevokedPrecondition(m.tree, bes) THEN [ok |-> FALSE, m |-> m]
    ELSE [ok |-> TRUE, m |-> RevokedApply(m, bes)]

\* ------------------------------------------------- BaseSweepingRevoker
SweepExceeds_inclusive(n, capacity) == n >= capacity
\* len(addr_ivals) > self._capacity_ivals
SweepExceeds(n, capacity) == n > capacity

\* _sweep(amount, addr_ivals) with n = len(addr_ivals); ok = no error raised
Sweep(sw, amount, n, capacity) ==
    IF SweepExceeds(n, capacity) THEN [ok |-> FALSE, swept |-> sw]
    ELSE [ok |-> TRUE, swept |-> sw + amount]

RECURSIVE SortedIvals(_)
\* a list of the intervals of S, ascending by (begin, end)
SortedIvals(S) ==
    IF S = {} THEN <<>>
    ELSE LET lo == CHOOSE i \in S : \A j \in S :
                       i.begin < j.begin \/ (i.begin = j.begin /\ i.end <= j.end)
         IN <<lo>> \o SortedIvals(S \ {lo})

RECURSIVE RevokeEach(_, _)
\* for ival in intervals: alloc_state.revoked(ival.begin, ival.end)
RevokeEach(m, ivals) ==
    IF ivals = <<>> THEN [ok |-> TRUE, m |-> m]
    ELSE LET r == revoked(m, << <<Head(ivals).begin, Head(ivals).end>> >>)
         IN IF r.ok THEN RevokeEach(r.m, Tail(ivals)) ELSE r

\* ------------------------------------------------ NaiveSweepingRevoker
NaiveIntervals_clipped(t, begin, end) ==
    {AddrIval(Max(i.begin, begin), Min(i.end, end), i.data) :
        i \in {j \in TreeOverlap(t, begin, end) : j.data = "FREED"}}
\* variant: the intervals overlapping [begin, end), whatever their state
NaiveIntervals_anystate(t, begin, end) == TreeOverlap(t, begin, end)
\* variant: only the Freed intervals that lie inside [begin, end)
NaiveIntervals_inside(t, begin, end) ==
    {i \in t : begin <= i.begin /\ i.end <= end /\ i.data = "FREED"}
\* [i for i in alloc_state.addr_ivals(begin, end) if i.state is FREED]
NaiveIntervals(t, begin, end) ==
    {i \in TreeOverlap(t, begin, end) : i.data = "FREED"}

NaiveSweepAmount_total(addr_space_size, intervals) == SumLen(intervals)
\* the amount passed to _sweep: addr_space.size
NaiveSweepAmount(addr_space_size, intervals) == addr_space_size

\* NaiveSweepingRevoker.reused(alloc_state, begin, end)
NaiveReused(m, sw, addr_space_size, capacity, begin, end) ==
    LET intervals == NaiveIntervals(m.tree, begin, end)
        s == IF intervals # {}
             THEN Sweep(sw, NaiveSweepAmount(addr_space_size, intervals),
                        Cardinality(intervals), capacity)
             ELSE [ok |-> TRUE, swept |-> sw]
        r == RevokeEach(m, SortedIvals(intervals))
    IN IF ~s.ok THEN [status |-> "sweep_error", m |-> m, swept |-> sw]
       ELSE [status |-> IF r.ok THEN "ok" ELSE "still_allocated",
             m |-> r.m, swept |-> s.swept]


\* -------------------------------------------- intervaltree_query_coalesced
RECURSIVE CoalesceLeft(_, _, _)
\* the ival_left loop: the begin of the run of data_coalesced intervals
CoalesceLeft(t, ival_left, data_coalesced) ==
    LET q == intervaltree_query_checked(t, ival_left.begin - 1)
        next == CHOOSE i \in q.ival : TRUE
    IN IF ~q.ok THEN [ok |-> FALSE, edge |-> ival_left.begin]
       ELSE IF q.ival # {} /\ next.data \in data_coalesced
            THEN CoalesceLeft(t, next, data_coalesced)
            ELSE [ok |-> TRUE, edge |-> ival_left.begin]

RECURSIVE CoalesceRight(_, _, _)
\* the ival_right loop: the end of the run of data_coalesced intervals
CoalesceRight(t, ival_right, data_coalesced) ==
    LET q == intervaltree_query_checked(t, ival_right.end)
        next == CHOOSE i \in q.ival : TRUE
    IN IF ~q.ok THEN [ok |-> FALSE, edge |-> ival_right.end]
       ELSE IF q.ival # {} /\ next.data \in data_coalesced
            THEN CoalesceRight(t, next, data_coalesced)
            ELSE [ok |-> TRUE, edge |-> ival_right.end]

\* variant: coalesce_with is ignored, only intervals of the found interval's
\* own state are merged
intervaltree_query_coalesced_own(t, point, coalesce_with) ==
    LET q == intervaltree_query_checked(t, point)
        ival == CHOOSE i \in q.ival : TRUE
        l == CoalesceLeft(t, ival, {ival.data})
        r == CoalesceRight(t, ival, {ival.data})
    IN IF ~q.ok \/ q.ival = {} THEN [ok |-> FALSE, ival |-> AddrIval(point, point, "None")]
       ELSE [ok |-> l.ok /\ r.ok, ival |-> AddrIval(l.edge, r.edge, ival.data)]
\* intervaltree_query_coalesced(tree, point, coalesce_with=...), for a point
\* that a stored interval covers; ok is the assertion of the checked queries
intervaltree_query_coalesced(t, point, coalesce_with) ==
    LET q == intervaltree_query_checked(t, point)
        ival == CHOOSE i \in q.ival : TRUE
        data_coalesced == {ival.data} \cup coalesce_with
        l == CoalesceLeft(t, ival, data_coalesced)
        r == CoalesceRight(t, ival, data_coalesced)
    IN IF ~q.ok \/ q.ival = {} THEN [ok |-> FALSE, ival |-> AddrIval(point, point, "None")]
       ELSE [ok |-> l.ok /\ r.ok, ival |-> AddrIval(l.edge, r.edge, ival.data)]

\* ------------------------------------------- CompactingSweepingRevoker
CompactingIntervals_inrange(t, begin, end) ==
    {i \in TreeOverlap(t, begin, end) : i.data = "FREED"}
\* [i for i in alloc_state.addr_ivals() if i.state is FREED]
CompactingIntervals(t, begin, end) == {i \in t : i.data = "FREED"}

RECURSIVE CompactingDrop(_, _)
\* the inner while loop: drop the pending intervals the merged ival reaches;
\* ok is the assertion 'failed to coalesce'
CompactingDrop(ival, intervals) ==
    IF intervals # <<>> /\ ival.end >= Head(intervals).begin
    THEN IF ival.end > Head(intervals).begin
         THEN CompactingDrop(ival, Tail(intervals))
         ELSE [ok |-> FALSE, intervals |-> intervals]
    ELSE [ok |-> TRUE, intervals |-> intervals]

RECURSIVE CompactingCoalesce(_, _, _)
\* the outer while loop over the Freed intervals in ascending order
CompactingCoalesce(t, intervals, intervals_coalesced) ==
    IF intervals = <<>> THEN [status |-> "ok", batch |-> intervals_coalesced]
    ELSE LET c == intervaltree_query_coalesced(t, Head(intervals).begin, {"REVOKED"})
             d == CompactingDrop(c.ival, Tail(intervals))
         IN IF ~c.ok THEN [status |-> "overlap_bug", batch |-> intervals_coalesced]
            ELSE IF ~d.ok THEN [status |-> "coalesce_bug", batch |-> intervals_coalesced]
            ELSE CompactingCoalesce(t, d.intervals, Append(intervals_coalesced, c.ival))

CompactingSweepAmount_total(addr_space_size, intervals_coalesced) ==
    SumLen({intervals_coalesced[k] : k \in 1 .. Len(intervals_coalesced)})
\* the amount passed to _sweep: addr_space.size
CompactingSweepAmount(addr_space_size, intervals_coalesced) == addr_space_size

\* CompactingSweepingRevoker.reused(alloc_state, begin, end)
CompactingReused(m, sw, addr_space_size, capacity, begin, end) ==
    LET intervals == SortedIvals(CompactingIntervals(m.tree, begin, end))
        c == CompactingCoalesce(m.tree, intervals, <<>>)
        s == IF c.batch # <<>>
             THEN Sweep(sw, CompactingSweepAmount(addr_space_size, c.batch),
                        Len(c.batch), capacity)
             ELSE [ok |-> TRUE, swept |-> sw]
        r == RevokeEach(m, c.batch)
    IN IF c.status # "ok" THEN [status |-> c.status, m |-> m, swept |-> sw]
       ELSE IF ~s.ok THEN [status |-> "sweep_error", m |-> m, swept |-> sw]
       ELSE [status |-> IF r.ok THEN "ok" ELSE "still_allocated",
             m |-> r.m, swept |-> s.swept]

\* ================================================================ state
VARIABLES
    tree,            \* alloc_state._addr_ivals: the lifecycle interval store
    imap,            \* alloc_state.__addr_ivals: the coalesced interval map
    allocd_size,     \* alloc_state.allocd_size
    mapd_size,       \* alloc_state.mapd_size
    size,            \* addr_space.size: the last address-space size sample
    swept,           \* revoker.swept
    revoker,         \* the revoker class chosen on the command line
    capacity_ivals,  \* revoker._capacity_ivals
    pc,              \* position of the running handler: idle, publish, commit, aborted
    cur,             \* the allocd call in progress
    delivered,       \* 'reused' calls the subscriber received in the allocd call in progress
    abort,           \* the error that ended the run, "" while it runs
    timestamp_ms,    \* run.timestamp_ms: the trace time of the event being replayed
    call_last_ms,    \* call_last_ms in the closure of GraphOutput.update
    emissions,       \* the trace times of the last two lines GraphOutput printed
    pool,            \* the pool AllocationMapOutput.update renders: <<p.begin, p.end>>
    chunks,          \* the chunks (cb, ce) of the pool, one per symbol printed
    coalesced,       \* the coalesced map as _chunk_state reads it
    addr_ivals_reused, \* AllocationMapOutput._addr_ivals_reused
    chunk,           \* the arguments <<cbegin, cend>> of _chunk_state
    chunk_stat,      \* the symbol _chunk_state returned, "" before the call
    nextoid,         \* MetadataTracker._nextoid
    tva2oid,         \* MetadataTracker._tva2oid: address -> object id, 0 for no entry
    oid2amd,         \* the object ids with an entry in _oid2amd
    oid2irt,         \* the object ids with an entry in _oid2irt
    oid2rmd,         \* the object ids with an entry other than None in _oid2rmd
    allocs,          \* object id -> number of rows inserted into 'allocs' (calls of _ia)
    reallocs,        \* the object ids with a row in 'reallocs' (calls of _ir)
    finished,        \* finish() has run
    va2sz,           \* AccountingAddrSpaceModel._va2sz: start -> size, 0 for no entry
    account_allocd_size  \* AccountingAddrSpaceModel.allocd_size

vars == <<tree, imap, allocd_size, mapd_size, size, swept, revoker,
          capacity_ivals, pc, cur, delivered, abort,
          timestamp_ms, call_last_ms, emissions,
          pool, chunks, coalesced, addr_ivals_reused, chunk, chunk_stat,
          nextoid, tva2oid, oid2amd, oid2irt, oid2rmd, allocs, reallocs, finished,
          va2sz, account_allocd_size>>

M == [tree |-> tree, imap |-> imap, allocd_size |-> allocd_size, mapd_size |-> mapd_size]
SetM(m) ==
    /\ tree' = m.tree
    /\ imap' = m.imap
    /\ allocd_size' = m.allocd_size
    /\ mapd_size' = m.mapd_size

NoCall == [begin |-> 0, end |-> 0, overlaps |-> FALSE, pre |-> {}, args |-> <<>>]

\* the state of the accounting model
acctvars == <<va2sz, account_allocd_size>>
\* the state of the full allocator model and the revoker
fullvars == <<tree, imap, allocd_size, mapd_size, size, swept, revoker,
              capacity_ivals, pc, cur, delivered, abort>>
\* the state of the allocator models and the revoker
allocvars == <<fullvars, acctvars>>
\* the state of the rate limiter of the GraphOutput
ratevars == <<timestamp_ms, call_last_ms, emissions>>
\* the state of the AllocationMapOutput
rendervars == <<pool, chunks, coalesced, addr_ivals_reused, chunk, chunk_stat>>
\* the state of the output emitters
outvars == <<ratevars, rendervars>>
\* the state of util/trace-to-db.py: the MetadataTracker and the database
dbvars == <<nextoid, tva2oid, oid2amd, oid2irt, oid2rmd, allocs, reallocs, finished>>

Config == UNCHANGED <<revoker, capacity_ivals, outvars, dbvars, acctvars>>
Abort(reason) == pc' = "aborted" /\ abort' = reason /\ cur' = NoCall /\ delivered' = 0

AllocatorInitState ==
    /\ tree = AllocatorInit.tree
    /\ imap = AllocatorInit.imap
    /\ allocd_size = AllocatorInit.allocd_size
    /\ mapd_size = AllocatorInit.mapd_size
    /\ size = 0
    /\ swept = 0
    /\ pc = "idle"
    /\ cur = NoCall
    /\ delivered = 0
    /\ abort = ""
    /\ va2sz = [a \in Addrs |-> 0]
    /\ account_allocd_size = 0

\* no event replayed yet, GraphOutput.update never called
RateInitState ==
    /\ timestamp_ms = 0
    /\ call_last_ms = 0
    /\ emissions = <<>>

\* no allocation map rendered
RenderInitState ==
    /\ pool = <<0, 0>>
    /\ chunks = <<>>
    /\ coalesced = <<>>
    /\ addr_ivals_reused = {}
    /\ chunk = <<0, 0>>
    /\ chunk_stat = ""

\* MetadataTracker.__init__ and the empty tables
TrackerInitState ==
    /\ nextoid = 1
    /\ tva2oid = [tva \in 0 .. (MaxTva - 1) |-> 0]
    /\ oid2amd = {}
    /\ oid2irt = {}
    /\ oid2rmd = {}
    /\ allocs = [oid \in 1 .. MaxOid |-> 0]
    /\ reallocs = {}
    /\ finished = FALSE

InitState ==
    /\ AllocatorInitState
    /\ RateInitState
    /\ RenderInitState
    /\ TrackerInitState


\* the script's set-up: revoker_cls() with the default ceiling
Init ==
    /\ InitState
    /\ revoker \in {"NaiveSweepingRevoker", "CompactingSweepingRevoker"}
    /\ capacity_ivals = capacity_ivals_default

\* a revoker constructed with a configured ceiling
InitCeiling ==
    /\ InitState
    /\ revoker \in {"NaiveSweepingRevoker", "CompactingSweepingRevoker"}
    /\ capacity_ivals \in 1 .. MaxCeiling

\* the driver replays the next trace event only when the last one was handled
Replaying == pc = "idle" /\ swept + size <= MaxSwept

\* ---------------------------------------------------------- allocd
PublishArgs_overlap(begin, end, overlaps_freed) ==
    LET lo == CHOOSE i \in overlaps_freed : \A j \in overlaps_freed : i.begin <= j.begin
        hi == CHOOSE i \in overlaps_freed : \A j \in overlaps_freed : i.end >= j.end
    IN <<Max(begin, lo.begin), Min(end, hi.end)>>
\* the arguments of self._publish('reused', begin, end)
PublishArgs(begin, end, overlaps_freed) == <<begin, end>>

ShouldPublish_any(overlaps, overlaps_freed) == overlaps # {}
\* if overlaps_freed:
ShouldPublish(overlaps, overlaps_freed) == overlaps_freed # {}

\* allocd(begin, end) up to the publication: the overlap queries on m.tree
AllocdEnter(m, begin, end) ==
    LET overlaps == TreeOverlap(m.tree, begin, end)
        overlaps_freed == {o \in overlaps : o.data = "FREED"}
        publish == ShouldPublish(overlaps, overlaps_freed)
    IN /\ cur' = [begin |-> begin, end |-> end, overlaps |-> overlaps # {},
                  pre |-> m.tree,
                  args |-> IF publish THEN PublishArgs(begin, end, overlaps_freed)
                           ELSE <<>>]
       /\ pc' = IF publish THEN "publish" ELSE "commit"
       /\ delivered' = 0
       /\ abort' = abort

\* trace event allocd(begin, end)
Allocd(begin, end) ==
    /\ Replaying
    /\ AllocdEnter(M, begin, end)
    /\ UNCHANGED <<tree, imap, allocd_size, mapd_size, size, swept>>
    /\ Config

\* the subscriber's reused(alloc_state, begin, end), called by _publish
Reused ==
    /\ pc = "publish"
    /\ LET r == IF revoker = "NaiveSweepingRevoker"
                THEN NaiveReused(M, swept, size, capacity_ivals, cur.args[1], cur.args[2])
                ELSE CompactingReused(M, swept, size, capacity_ivals, cur.args[1], cur.args[2])
       IN /\ SetM(r.m)
          /\ swept' = r.swept
          /\ IF r.status = "ok"
             THEN pc' = "commit" /\ delivered' = delivered + 1 /\ UNCHANGED <<cur, abort>>
             ELSE Abort(r.status)
    /\ UNCHANGED size
    /\ Config

CommitTree_nochop(t, interval, overlaps) == t
\* variant: only the intervals that lie inside [begin, end) are removed
CommitTree_envelop(t, interval, overlaps) ==
    {i \in t : ~(interval.begin <= i.begin /\ i.end <= interval.end)}
\* if overlaps: self._addr_ivals.chop(begin, end)
CommitTree(t, interval, overlaps) ==
    IF overlaps THEN TreeChop(t, interval.begin, interval.end) ELSE t

\* the rest of allocd: chop, _update, add
AllocdCommit ==
    /\ pc = "commit"
    /\ LET interval == AddrIval(cur.begin, cur.end, "ALLOCD")
           chopped == [M EXCEPT !.tree = CommitTree(tree, interval, cur.overlaps)]
           updated == Update(chopped, interval)
       IN SetM([updated EXCEPT !.tree = updated.tree \cup {interval}])
    /\ pc' = "idle"
    /\ cur' = NoCall
    /\ delivered' = 0
    /\ UNCHANGED <<size, swept, abort>>
    /\ Config

\* ---------------------------------------------------------- reallocd
\* reallocd(begin_old, begin_new, end_new) up to its call of allocd
ReallocdPrelude(m, begin_old, begin_new, end_new) ==
    LET q == intervaltree_query_checked(m.tree, begin_old)
        interval_old == CHOOSE i \in q.ival : TRUE
        interval_new == AddrIval(begin_new, end_new, "ALLOCD")
        updated == Update(m, AddrIval(interval_old.begin, interval_old.end, "FREED"))
        removed == updated.tree \ {interval_old}
        below == IF IvalLt(interval_new, interval_old)
                 THEN removed \cup {AddrIval(interval_new.end, interval_old.end, "FREED")}
                 ELSE removed
        above == IF IvalGt(interval_new, interval_old)
                 THEN below \cup {AddrIval(interval_old.begin, interval_new.begin, "FREED")}
                 ELSE below
    IN IF ~q.ok THEN [ok |-> FALSE, m |-> m]
       ELSE IF q.ival = {} THEN [ok |-> TRUE, m |-> m]
       ELSE IF IvalOverlaps(interval_new, interval_old)
            THEN [ok |-> TRUE, m |-> [updated EXCEPT !.tree = above]]
            ELSE freed(m, begin_old)

\* trace event reallocd(begin_old, begin_new, end_new)
Reallocd(begin_old, begin_new, end_new) ==
    /\ Replaying
    /\ LET p == ReallocdPrelude(M, begin_old, begin_new, end_new)
       IN IF p.ok
          THEN SetM(p.m) /\ AllocdEnter(p.m, begin_new, end_new)
          ELSE SetM(p.m) /\ Abort("overlap_bug")
    /\ UNCHANGED <<size, swept>>
    /\ Config

\* ---------------------------------------------------------- freed
\* trace event freed(begin)
Freed(begin) ==
    /\ Replaying
    /\ LET f == freed(M, begin)
       IN IF f.ok
          THEN SetM(f.m) /\ UNCHANGED <<pc, cur, delivered, abort>>
          ELSE SetM(f.m) /\ Abort("overlap_bug")
    /\ UNCHANGED <<size, swept>>
    /\ Config

\* ---------------------------------------------------------- revoked
\* trace event revoked(*bes): alloc_state.revoked, then the revoker's revoked,
\* which sweeps for the given ranges
Revoked(bes) ==
    /\ Replaying
    /\ LET r == revoked(M, bes)
           s == Sweep(swept, size, Len(bes), capacity_ivals)
       IN /\ SetM(r.m)
          /\ IF ~r.ok THEN Abort("still_allocated") /\ UNCHANGED swept
             ELSE IF ~s.ok THEN Abort("sweep_error") /\ UNCHANGED swept
             ELSE swept' = s.swept /\ UNCHANGED <<pc, cur, delivered, abort>>
    /\ UNCHANGED size
    /\ Config

\* ---------------------------------------------------------- mapd / unmapd
\* trace event mapd(callstack, begin, end); from_allocator: the call stack
\* names malloc, calloc, realloc or free
Mapd(from_allocator, begin, end) ==
    /\ Replaying
    /\ IF from_allocator THEN SetM(Update(M, AddrIval(begin, end, "MAPD")))
       ELSE UNCHANGED <<tree, imap, allocd_size, mapd_size>>
    /\ UNCHANGED <<size, swept, pc, cur, delivered, abort>>
    /\ Config

\* trace event unmapd(callstack, begin, end)
Unmapd(begin, end) ==
    /\ Replaying
    /\ SetM(Update(M, AddrIval(begin, end, "UNMAPD")))
    /\ UNCHANGED <<size, swept, pc, cur, delivered, abort>>
    /\ Config

\* ---------------------------------------------------------- samples
\* address-space sample: addr_space.size_measured(size)
SizeMeasured(sample) ==
    /\ pc = "idle"
    /\ size' = sample
    /\ UNCHANGED <<tree, imap, allocd_size, mapd_size, swept, pc, cur, delivered, abort>>
    /\ Config

\* ================================================================ specs
Next ==
    \/ \E r \in Ranges : Allocd(r[1], r[2])
    \/ \E b \in Addrs, r \in Ranges : Reallocd(b, r[1], r[2])
    \/ \E b \in Addrs : Freed(b)
    \/ \E bes \in RevokeBatches : Revoked(bes)
    \/ \E s \in 0 .. MaxSize : SizeMeasured(s)
    \/ Reused
    \/ AllocdCommit

Spec == Init /\ [][Next]_vars

SpecCeiling == InitCeiling /\ [][Next]_vars


\* traces with mapd/unmapd events (and no address-space samples)
NextMapped ==
    \/ \E r \in Ranges : Allocd(r[1], r[2])
    \/ \E b \in Addrs, r \in Ranges : Reallocd(b, r[1], r[2])
    \/ \E b \in Addrs : Freed(b)
    \/ \E bes \in RevokeBatches : Revoked(bes)
    \/ \E f \in BOOLEAN, r \in MapRanges : Mapd(f, r[1], r[2])
    \/ \E r \in MapRanges : Unmapd(r[1], r[2])
    \/ Reused
    \/ AllocdCommit

SpecMapped == Init /\ [][NextMapped]_vars


\* ============================================================== outputs
\* @BaseOutput.rate_limited_runms(100) on GraphOutput.update
call_period_ms == 100

\* the steps by which the trace time advances between two events
TimeSteps == {call_period_ms - 1, call_period_ms, call_period_ms + 1}

\* the last two elements of a sequence
LastTwo(q) == IF Len(q) <= 2 THEN q ELSE SubSeq(q, Len(q) - 1, Len(q))

\* the condition under which rate_limited_meth runs the method
RateLimitElapsed(last_ms, now_ms, period_ms) ==
    last_ms = 0 \/ now_ms - last_ms > period_ms

\* the driver replays an event that is dt ms later than the last one
TimestampAdvance(dt) ==
    /\ timestamp_ms + dt <= MaxTime
    /\ timestamp_ms' = timestamp_ms + dt
    /\ UNCHANGED <<call_last_ms, emissions>>
    /\ UNCHANGED <<allocvars, rendervars, dbvars>>

\* output.update() with the GraphOutput: rate_limited_meth
GraphOutputUpdate ==
    /\ IF RateLimitElapsed(call_last_ms, timestamp_ms, call_period_ms)
       THEN /\ emissions' = LastTwo(Append(emissions, timestamp_ms))
            /\ call_last_ms' = timestamp_ms
       ELSE UNCHANGED <<call_last_ms, emissions>>
    /\ UNCHANGED timestamp_ms
    /\ UNCHANGED <<allocvars, rendervars, dbvars>>

NextOutput ==
    \/ \E dt \in TimeSteps : TimestampAdvance(dt)
    \/ GraphOutputUpdate

SpecOutput == Init /\ [][NextOutput]_vars

\* --------------------------------------------- AllocationMapOutput.update
\* AllocationMapOutput.POOL_MAP_RESOLUTION_IN_SYMBOLS
POOL_MAP_RESOLUTION_IN_SYMBOLS == 60

\* list(range(start, stop, step)) for step > 0
PyRange(start, stop, step) ==
    LET n == IF stop <= start THEN 0 ELSE ((stop - start) + step - 1) \div step
    IN [k \in 1 .. n |-> start + (k - 1) * step]

\* variant: chunks of chunk_size bytes from offset 0 on
ChunkOffsets_plain(psize) ==
    LET q == psize \div POOL_MAP_RESOLUTION_IN_SYMBOLS
        chunk_size == IF q > 0 THEN q ELSE psize
    IN PyRange(0, psize, chunk_size)
\* chunk_offsets of a pool of psize bytes
ChunkOffsets(psize) ==
    LET q == psize \div POOL_MAP_RESOLUTION_IN_SYMBOLS
        r == psize % POOL_MAP_RESOLUTION_IN_SYMBOLS
        chunk_size == IF q > 0 THEN q ELSE psize
        rem == IF q > 0 THEN r ELSE 0
    IN PyRange(0, rem * (chunk_size + 1), chunk_size + 1)
          \o PyRange(rem * (chunk_size + 1), psize, chunk_size)

\* the pairs (cb, ce) of zip_longest(chunks, chunks[1:], fillvalue=p.end)
ChunkBounds(p) ==
    LET offsets == ChunkOffsets(p[2] - p[1])
    IN [k \in 1 .. Len(offsets) |->
           <<p[1] + offsets[k],
             IF k < Len(offsets) THEN p[1] + offsets[k + 1] ELSE p[2]>>]

\* a pool of _get_memory_pools() is about to be rendered
InitPool ==
    /\ AllocatorInitState /\ RateInitState /\ TrackerInitState
    /\ revoker = "NaiveSweepingRevoker"
    /\ capacity_ivals = capacity_ivals_default
    /\ pool \in {<<b, b + psize>> : b \in 0 .. 1, psize \in 1 .. MaxPool}
    /\ chunks = <<>>
    /\ coalesced = <<>>
    /\ addr_ivals_reused = {}
    /\ chunk = <<0, 0>>
    /\ chunk_stat = ""

\* the body of the loop of update() for the pool: one symbol per chunk
RenderPool ==
    /\ chunks = <<>>
    /\ chunks' = ChunkBounds(pool)
    /\ UNCHANGED <<pool, coalesced, addr_ivals_reused, chunk, chunk_stat>>
    /\ UNCHANGED <<allocvars, ratevars, dbvars>>

NextPool == RenderPool

SpecPool == InitPool /\ [][NextPool]_vars

\* ------------------------------------------ AllocationMapOutput._chunk_state
AddrIvalStates == {"ALLOCD", "FREED", "REVOKED", "MAPD", "UNMAPD"}

\* alloc_state.addr_ivals_coalesced_sorted(begin, end): the intervals of the
\* coalesced map im (its maximal runs of one state) that overlap [begin, end),
\* those without data left out
addr_ivals_coalesced_sorted(im, begin, end) ==
    LET n == Len(im)
        cell(a) == im[a + 1]
        runs == {r \in (0 .. n) \X (0 .. n) :
                    /\ r[1] < r[2]
                    /\ cell(r[1]) # "None"
                    /\ \A a \in r[1] .. (r[2] - 1) : cell(a) = cell(r[1])
                    /\ (r[1] > 0 => cell(r[1] - 1) # cell(r[1]))
                    /\ (r[2] < n => cell(r[2]) # cell(r[1]))}
    IN {AddrIval(r[1], r[2], cell(r[1])) : r \in {x \in runs : x[1] < end /\ x[2] > begin}}

\* variant: coverage has to exceed 80% of the chunk
chunk_state_above(im, reused, cbegin, cend) ==
    LET csize == cend - cbegin
        coverlaps == addr_ivals_coalesced_sorted(im, cbegin, cend)
    IN IF \E r \in reused : r[1] < cend /\ r[2] > cbegin THEN "~"
       ELSE IF \A i \in coverlaps : i.data \in {"MAPD", "UNMAPD", "FREED", "REVOKED"}
            THEN "0"
       ELSE IF /\ \A i \in coverlaps : i.data = "ALLOCD"
               /\ 100 * SumLen({AddrIval(Max(i.begin, cbegin), Min(i.end, cend), i.data) :
                                    i \in coverlaps}) > 80 * csize
            THEN "#"
       ELSE "="
\* _chunk_state(cbegin, cend); sum >= 0.80 * csize is 100 * sum >= 80 * csize
chunk_state(im, reused, cbegin, cend) ==
    LET csize == cend - cbegin
        coverlaps == addr_ivals_coalesced_sorted(im, cbegin, cend)
    IN IF \E r \in reused : r[1] < cend /\ r[2] > cbegin THEN "~"
       ELSE IF \A i \in coverlaps : i.data \in {"MAPD", "UNMAPD", "FREED", "REVOKED"}
            THEN "0"
       ELSE IF /\ \A i \in coverlaps : i.data = "ALLOCD"
               /\ 100 * SumLen({AddrIval(Max(i.begin, cbegin), Min(i.end, cend), i.data) :
                                    i \in coverlaps}) >= 80 * csize
            THEN "#"
       ELSE "="

\* the chunks classified: the whole map, or all of it but its first or last byte
ChunkRanges ==
    {r \in (0 .. MaxChunk) \X (0 .. MaxChunk) : r[2] - r[1] >= MaxChunk - 1}

\* the map and the buffer of reused ranges at a call of _chunk_state
InitChunk ==
    /\ AllocatorInitState /\ RateInitState /\ TrackerInitState
    /\ revoker = "NaiveSweepingRevoker"
    /\ capacity_ivals = capacity_ivals_default
    /\ pool = <<0, 0>>
    /\ chunks = <<>>
    /\ coalesced \in [1 .. MaxChunk -> AddrIvalStates \cup {"None"}]
    /\ addr_ivals_reused \in {{}, {<<0, 1>>}, {<<MaxChunk - 1, MaxChunk>>}}
    /\ chunk = <<0, 0>>
    /\ chunk_stat = ""

\* self._chunk_state(cbegin, cend)
ChunkStateCall(cbegin, cend) ==
    /\ chunk_stat = ""
    /\ chunk' = <<cbegin, cend>>
    /\ chunk_stat' = chunk_state(coalesced, addr_ivals_reused, cbegin, cend)
    /\ UNCHANGED <<pool, chunks, coalesced, addr_ivals_reused>>
    /\ UNCHANGED <<allocvars, ratevars, dbvars>>

NextChunk == \E r \in ChunkRanges : ChunkStateCall(r[1], r[2])

SpecChunk == InitChunk /\ [][NextChunk]_vars

\* ============================================ AccountingAddrSpaceModel
\* The accounting model as one value a: a.va2sz (_va2sz), a.allocd_size
A == [va2sz |-> va2sz, allocd_size |-> account_allocd_size]

SetA(a) ==
    /\ va2sz' = a.va2sz
    /\ account_allocd_size' = a.allocd_size

\* variant: the size of an entry that is replaced is subtracted
account_allocd_replace(a, begin, end) ==
    [va2sz |-> [a.va2sz EXCEPT ![begin] = end - begin],
     allocd_size |-> a.allocd_size - a.va2sz[begin] + (end - begin)]
\* AccountingAddrSpaceModel.allocd(begin, end)
account_allocd(a, begin, end) ==
    [va2sz |-> [a.va2sz EXCEPT ![begin] = end - begin],
     allocd_size |-> a.allocd_size + (end - begin)]

\* AccountingAddrSpaceModel.freed(begin)
account_freed(a, begin) ==
    LET sz == a.va2sz[begin]
    IN IF sz # 0
       THEN [va2sz |-> [a.va2sz EXCEPT ![begin] = 0],
             allocd_size |-> a.allocd_size - sz]
       ELSE a

\* variant: the old allocation is not released
account_reallocd_keep(a, obegin, nbegin, nend) == account_allocd(a, nbegin, nend)
\* AccountingAddrSpaceModel.reallocd(obegin, nbegin, nend)
account_reallocd(a, obegin, nbegin, nend) ==
    account_allocd(account_freed(a, obegin), nbegin, nend)

\* the accounting model, as the script runs it with 'account': its handlers
\* for the allocate, free and reallocate events of any trace
AccountEvent(a) == a.allocd_size <= MaxAccount /\ SetA(a)

AccountAllocd(begin, end) ==
    /\ AccountEvent(account_allocd(A, begin, end))
    /\ UNCHANGED <<fullvars, outvars, dbvars>>

AccountFreed(begin) ==
    /\ AccountEvent(account_freed(A, begin))
    /\ UNCHANGED <<fullvars, outvars, dbvars>>

AccountReallocd(obegin, nbegin, nend) ==
    /\ AccountEvent(account_reallocd(A, obegin, nbegin, nend))
    /\ UNCHANGED <<fullvars, outvars, dbvars>>

NextAccounting ==
    \/ \E r \in Ranges : AccountAllocd(r[1], r[2])
    \/ \E b \in Addrs : AccountFreed(b)
    \/ \E b \in Addrs, r \in Ranges : AccountReallocd(b, r[1], r[2])

SpecAccounting == Init /\ [][NextAccounting]_vars

\* ------------------------------------ both allocator models, clean traces
\* The full model (with its revoker) and the accounting model receive the
\* same events.  The trace is clean: allocated ranges are disjoint from the
\* Allocated intervals, frees and reallocations name the start of one.
AllocatedAt(begin) == {i \in tree : i.data = "ALLOCD" /\ i.begin = begin}
CleanRange(begin, end, except) ==
    {i \in TreeOverlap(tree, begin, end) : i.data = "ALLOCD"} \subseteq except

\* trace event allocd(begin, end), delivered to both models
SideAllocd(begin, end) ==
    /\ Replaying
    /\ CleanRange(begin, end, {})
    /\ AllocdEnter(M, begin, end)
    /\ UNCHANGED <<tree, imap, allocd_size, mapd_size, size, swept>>
    /\ SetA(account_allocd(A, begin, end))
    /\ UNCHANGED <<revoker, capacity_ivals, outvars, dbvars>>

\* trace event freed(begin), delivered to both models
SideFreed(begin) ==
    /\ Replaying
    /\ AllocatedAt(begin) # {}
    /\ LET f == freed(M, begin)
       IN IF f.ok
          THEN SetM(f.m) /\ UNCHANGED <<pc, cur, delivered, abort>>
          ELSE SetM(f.m) /\ Abort("overlap_bug")
    /\ UNCHANGED <<size, swept>>
    /\ SetA(account_freed(A, begin))
    /\ UNCHANGED <<revoker, capacity_ivals, outvars, dbvars>>

\* trace event reallocd(begin_old, begin_new, end_new), delivered to both models
SideReallocd(begin_old, begin_new, end_new) ==
    /\ Replaying
    /\ AllocatedAt(begin_old) # {}
    /\ CleanRange(begin_new, end_new, AllocatedAt(begin_old))
    /\ LET p == ReallocdPrelude(M, begin_old, begin_new, end_new)
       IN IF p.ok
          THEN SetM(p.m) /\ AllocdEnter(p.m, begin_new, end_new)
          ELSE SetM(p.m) /\ Abort("overlap_bug")
    /\ UNCHANGED <<size, swept>>
    /\ SetA(account_reallocd(A, begin_old, begin_new, end_new))
    /\ UNCHANGED <<revoker, capacity_ivals, outvars, dbvars>>

NextSide ==
    \/ \E r \in Ranges : SideAllocd(r[1], r[2])
    \/ \E b \in Addrs : SideFreed(b)
    \/ \E b \in Addrs, r \in Ranges : SideReallocd(b, r[1], r[2])
    \/ Reused
    \/ AllocdCommit

SpecSide == Init /\ [][NextSide]_vars

\* ================================================= util/trace-to-db.py
\* The MetadataTracker and the tables as one value t:
\*   t.nextoid, t.tva2oid, t.oid2amd, t.oid2irt, t.oid2rmd, t.allocs, t.reallocs
Tvas == 0 .. (MaxTva - 1)

T == [nextoid |-> nextoid, tva2oid |-> tva2oid, oid2amd |-> oid2amd,
      oid2irt |-> oid2irt, oid2rmd |-> oid2rmd, allocs |-> allocs,
      reallocs |-> reallocs]

SetT(t) ==
    /\ nextoid' = t.nextoid
    /\ tva2oid' = t.tva2oid
    /\ oid2amd' = t.oid2amd
    /\ oid2irt' = t.oid2irt
    /\ oid2rmd' = t.oid2rmd
    /\ allocs' = t.allocs
    /\ reallocs' = t.reallocs

\* MetadataTracker._allocd(stk, tva, sz, now)
tracker_allocd_new(t, tva) ==
    [t EXCEPT !.nextoid = @ + 1,
              !.tva2oid[tva] = t.nextoid,
              !.oid2amd = @ \cup {t.nextoid}]

\* MetadataTracker.freed(_, begin)
tracker_freed(t, begin) ==
    LET oid == t.tva2oid[begin]
    IN IF oid = 0 THEN t
       ELSE [t EXCEPT !.tva2oid[begin] = 0,
                      !.oid2irt = @ \ {oid},
                      !.oid2amd = @ \ {oid},
                      !.allocs[oid] = @ + 1,
                      !.oid2rmd = @ \ {oid},
                      !.reallocs = IF oid \in t.oid2rmd THEN @ \cup {oid} ELSE @]

\* MetadataTracker.allocd(stk, begin, end)
tracker_allocd(t, begin) ==
    LET synth == IF t.tva2oid[begin] # 0 THEN tracker_freed(t, begin) ELSE t
    IN tracker_allocd_new(synth, begin)

\* MetadataTracker.reallocd(stk, otva, ntva, etva); zero: etva == ntva
tracker_reallocd(t, otva, ntva, zero) ==
    LET synth == IF t.tva2oid[ntva] # 0 THEN tracker_freed(t, ntva) ELSE t
        oid == synth.tva2oid[otva]
        popped == [synth EXCEPT !.tva2oid[otva] = 0]
        created == tracker_allocd_new(popped, ntva)
    IN IF oid = 0
       THEN [created EXCEPT !.oid2irt = @ \cup {popped.nextoid},
                            !.oid2rmd = @ \cup {popped.nextoid}]
       ELSE IF zero THEN tracker_freed(popped, otva)
       ELSE [popped EXCEPT !.reallocs = IF oid \in popped.oid2rmd
                                        THEN @ \cup {oid} ELSE @,
                           !.oid2irt = IF oid \in popped.oid2rmd
                                       THEN @ ELSE @ \cup {oid},
                           !.oid2rmd = @ \cup {oid},
                           !.tva2oid[ntva] = oid]

RECURSIVE tracker_finish(_)
\* MetadataTracker.finish(): free whatever is still tracked
tracker_finish(t) ==
    IF \A tva \in Tvas : t.tva2oid[tva] = 0 THEN t
    ELSE LET k == CHOOSE tva \in Tvas : t.tva2oid[tva] # 0
         IN tracker_finish(tracker_freed(t, k))

\* the tracker has handled a trace event and is left as t; it creates at
\* most MaxOid objects
TrackerEvent(t) == t.nextoid <= MaxOid + 1 /\ SetT(t)

\* trace event allocd(stk, begin, end)
TrackerAllocd(begin) ==
    /\ ~finished
    /\ TrackerEvent(tracker_allocd(T, begin))
    /\ UNCHANGED <<finished, allocvars, outvars>>

\* trace event freed(stk, begin)
TrackerFreed(begin) ==
    /\ ~finished
    /\ TrackerEvent(tracker_freed(T, begin))
    /\ UNCHANGED <<finished, allocvars, outvars>>

\* trace event reallocd(stk, otva, ntva, etva)
TrackerReallocd(otva, ntva, zero) ==
    /\ ~finished
    /\ TrackerEvent(tracker_reallocd(T, otva, ntva, zero))
    /\ UNCHANGED <<finished, allocvars, outvars>>

\* at.finish() after run.replay()
TrackerFinish ==
    /\ ~finished
    /\ SetT(tracker_finish(T))
    /\ finished' = TRUE
    /\ UNCHANGED <<allocvars, outvars>>

NextTracker ==
    \/ \E begin \in Tvas : TrackerAllocd(begin)
    \/ \E begin \in Tvas : TrackerFreed(begin)
    \/ \E otva \in Tvas, ntva \in Tvas, zero \in BOOLEAN : TrackerReallocd(otva, ntva, zero)
    \/ TrackerFinish

SpecTracker == Init /\ [][NextTracker]_vars

\* =============================================================== claims
\* the state the lifecycle store reports at address a ("None": no interval)
TreeStateAt(t, a) ==
    IF TreeAt(t, a) = {} THEN "None" ELSE (CHOOSE i \in TreeAt(t, a) : TRUE).data
\* the Freed intervals of t overlapping [begin, end)
FreedOverlapping(t, begin, end) == {i \in TreeOverlap(t, begin, end) : i.data = "FREED"}
\* the bytes of the intervals of S that lie inside [begin, end)
SizeWithin(S, begin, end) ==
    Cardinality({a \in Addrs : begin <= a /\ a < end /\ \E i \in S : i.begin <= a /\ a < i.end})
RevokerIsNaive == revoker = "NaiveSweepingRevoker"
RevokerIsCompacting == revoker = "CompactingSweepingRevoker"
\* a step in which the subscribed revoker handles a notification and returns
ReusedReturns == pc = "publish" /\ pc' = "commit"

\* C1: after any sequence of events, and at every point of a reuse
\* notification, the intervals of the lifecycle store are non-empty and
\* pairwise non-overlapping: every address is covered by at most one of them,
\* and the assertion of the checked point query has never failed.
C1_Disjoint ==
    /\ \A a \in 0 .. MaxAddr : Cardinality(TreeAt(tree, a)) <= 1
    /\ \A i \in tree : i.begin < i.end
    /\ \A i \in tree, j \in tree : i # j => ~IvalOverlaps(i, j)
    /\ abort # "overlap_bug"
\* a revoker has revoked during a notification, in a store of several intervals
C1_Witness ==
    /\ pc = "commit" /\ delivered = 1
    /\ Cardinality(tree) >= 2
    /\ \E i \in tree : i.data = "REVOKED"
    /\ \E i \in tree : i.data = "ALLOCD"

\* C2: while a 'reused' notification is being delivered, and after the
\* subscriber has returned but before allocd commits, the lifecycle store does
\* not hold the new Allocated interval [begin, end); when the (first)
\* subscriber is called the store is as allocd found it and holds a Freed
\* interval overlapping [begin, end).
C2_PreCommit ==
    /\ pc = "publish" =>
          /\ AddrIval(cur.begin, cur.end, "ALLOCD") \notin tree
          /\ tree = cur.pre
          /\ FreedOverlapping(tree, cur.begin, cur.end) # {}
    /\ (pc = "commit" /\ delivered = 1) =>
          AddrIval(cur.begin, cur.end, "ALLOCD") \notin tree
\* a notification for a range that overlaps Freed and Allocated intervals
C2_Witness ==
    /\ pc = "publish"
    /\ \E i \in TreeOverlap(tree, cur.begin, cur.end) : i.data = "ALLOCD"

\* C3: an allocd call has delivered exactly one 'reused' notification when it
\* commits if its range overlapped a Freed interval, and none otherwise; only
\* an allocd call (of an allocd or reallocd event) publishes: no freed,
\* revoked, mapd or unmapd step does, and the commit itself does not.
C3_PublishOnce ==
    [][ /\ pc' = "commit" =>
              delivered' = IF FreedOverlapping(cur'.pre, cur'.begin, cur'.end) # {}
                           THEN 1 ELSE 0
        /\ pc' = "publish" =>
              /\ pc = "idle"
              /\ \/ \E r \in Ranges : Allocd(r[1], r[2])
                 \/ \E b \in Addrs, r \in Ranges : Reallocd(b, r[1], r[2])
        /\ delivered' > delivered => ReusedReturns /\ delivered' = 1
        /\ pc = "commit" => pc' = "idle"
      ]_vars
\* an allocd call that published once, in a trace with a mapd event
C3_Witness == pc = "commit" /\ delivered = 1 /\ mapd_size > 0

\* C4 as stated: the range of a notification lies within Freed space.
C4_RangeWithinFreed ==
    pc = "publish" =>
        \A a \in cur.args[1] .. (cur.args[2] - 1) : TreeStateAt(tree, a) = "FREED"
\* C4, amended: the range of a 'reused' notification is the range [begin, end)
\* of the new allocation, which overlaps at least one Freed interval.
C4_RangeIsAllocation ==
    pc = "publish" =>
        /\ cur.args = <<cur.begin, cur.end>>
        /\ FreedOverlapping(tree, cur.args[1], cur.args[2]) # {}
\* allocate(0,2); free(0); allocate(1,3): the notification carries [1,3)
C4_Witness ==
    /\ pc = "publish"
    /\ tree = {AddrIval(0, 2, "FREED")}
    /\ cur.args = <<1, 3>>

\* C5 as stated: a Naive notification adds the size of the Freed space within
\* the reused range to swept.
C5_SweptByFreedSize ==
    [][(ReusedReturns /\ RevokerIsNaive) =>
          swept' = swept + SizeWithin(FreedOverlapping(tree, cur.begin, cur.end),
                                      cur.begin, cur.end)]_vars
\* C5, amended: under the Naive strategy, handling one reuse notification adds
\* the last address-space size sample (addr_space.size) to swept, once,
\* whatever the sizes of the Freed intervals found.
C5_SweptByAddrSpaceSize ==
    [][(ReusedReturns /\ RevokerIsNaive) => swept' = swept + size]_vars
\* a Naive notification over two Freed bytes has been charged the sample 1
C5_Witness ==
    /\ pc = "commit" /\ delivered = 1 /\ RevokerIsNaive
    /\ size = 1 /\ swept = 1
    /\ SizeWithin(FreedOverlapping(cur.pre, cur.begin, cur.end), cur.begin, cur.end) = 2

\* the batch the Compacting revoker builds from the store t
CompactingBatch(t) ==
    CompactingCoalesce(t, SortedIvals({i \in t : i.data = "FREED"}), <<>>).batch
\* C6 as stated: a Compacting notification adds the total size of the batch
\* of merged intervals to swept.
C6_SweptByBatchSize ==
    [][(ReusedReturns /\ RevokerIsCompacting) =>
          swept' = swept + SumLen({CompactingBatch(tree)[k] :
                                      k \in 1 .. Len(CompactingBatch(tree))})]_vars
\* C6, amended: under the Compacting strategy, handling one reuse notification
\* adds the last address-space size sample (addr_space.size) to swept, once,
\* whatever the number and sizes of the merged intervals of the batch.
C6_SweptByAddrSpaceSize ==
    [][(ReusedReturns /\ RevokerIsCompacting) => swept' = swept + size]_vars
\* a Compacting notification with two separate Freed intervals outstanding has
\* been charged the sample 1
C6_Witness ==
    /\ pc = "commit" /\ delivered = 1 /\ RevokerIsCompacting
    /\ size = 1 /\ swept = 1
    /\ Len(CompactingBatch(cur.pre)) = 2

\* C7: when the Compacting revoker has handled a notification, no interval of
\* the lifecycle store is Freed, and every address that was Freed when allocd
\* was called is Revoked.
C7_AllFreedRevoked ==
    (pc = "commit" /\ delivered = 1 /\ RevokerIsCompacting) =>
        /\ \A i \in tree : i.data # "FREED"
        /\ \A a \in Addrs :
              TreeStateAt(cur.pre, a) = "FREED" => TreeStateAt(tree, a) = "REVOKED"
\* a Freed interval outside the triggering range has been revoked
C7_Witness ==
    /\ pc = "commit" /\ delivered = 1 /\ RevokerIsCompacting
    /\ \E i \in cur.pre :
          /\ i.data = "FREED"
          /\ ~IvalOverlaps(i, AddrIval(cur.begin, cur.end, "ALLOCD"))
          /\ AddrIval(i.begin, i.end, "REVOKED") \in tree

\* C8 as stated: a Naive notification changes no address outside its range.
C8_FrameIsRange ==
    [][(ReusedReturns /\ RevokerIsNaive) =>
          \A a \in Addrs :
              (a < cur.begin \/ a >= cur.end) =>
                  TreeStateAt(tree', a) = TreeStateAt(tree, a)]_vars
\* C8, amended: under the Naive strategy a reuse notification for [b,e)
\* revokes precisely the Freed intervals that overlap [b,e), each of them
\* whole, including its part outside [b,e); no address outside those
\* intervals changes state.
C8_FrameIsFreedIntervals ==
    [][(ReusedReturns /\ RevokerIsNaive) =>
          /\ tree' = (tree \ FreedOverlapping(tree, cur.begin, cur.end))
                       \cup {AddrIval(i.begin, i.end, "REVOKED") :
                                i \in FreedOverlapping(tree, cur.begin, cur.end)}
          /\ \A a \in Addrs :
                TreeStateAt(tree', a) =
                    IF \E i \in FreedOverlapping(tree, cur.begin, cur.end) :
                           i.begin <= a /\ a < i.end
                    THEN "REVOKED" ELSE TreeStateAt(tree, a)]_vars
\* a Freed interval that reaches outside the range has been revoked whole
C8_Witness ==
    /\ pc = "commit" /\ delivered = 1 /\ RevokerIsNaive
    /\ \E i \in FreedOverlapping(cur.pre, cur.begin, cur.end) :
          /\ (i.begin < cur.begin \/ i.end > cur.end)
          /\ AddrIval(i.begin, i.end, "REVOKED") \in tree

\* the number of intervals the subscribed revoker submits to its sweep
\* for a notification in the current state
BatchCount ==
    IF RevokerIsNaive THEN Cardinality(FreedOverlapping(tree, cur.begin, cur.end))
    ELSE Len(CompactingBatch(tree))
\* C9: a sweep of more intervals than the ceiling fails with an error and
\* leaves swept as it was; a sweep of at most that many does not fail. This
\* holds for the batch of a notification and for the ranges of a revoked event.
C9_SweepCeiling ==
    [][ /\ pc = "publish" =>
              IF BatchCount > capacity_ivals
              THEN pc' = "aborted" /\ abort' = "sweep_error" /\ swept' = swept
              ELSE pc' = "commit" /\ abort' = ""
        /\ abort' = "sweep_error" => swept' = swept
        /\ (pc = "idle" /\ pc' = "idle") =>
              \A bes \in RevokeBatches : Len(bes) > capacity_ivals => ~Revoked(bes)
      ]_vars
\* a sweep has failed after an earlier sweep was charged
C9_Witness == pc = "aborted" /\ abort = "sweep_error" /\ swept = 1 /\ size = 1

\* C10: a revoked event with a range that overlaps an Allocated interval
\* aborts the run, and the abort leaves both interval stores, both aggregates
\* and swept as they were: no range has been applied.
C10_RevokeAtomic ==
    [][ /\ (pc = "idle" /\ abort' = "still_allocated") =>
              UNCHANGED <<tree, imap, allocd_size, mapd_size, swept>>
        /\ (pc = "idle" /\ abort' # "still_allocated") =>
              \A bes \in RevokeBatches : ~RevokedPrecondition(tree, bes) => ~Revoked(bes)
      ]_vars
\* a revoked event has aborted the run in a store with Freed and Allocated
\* intervals and mapped memory
C10_Witness ==
    /\ pc = "aborted" /\ abort = "still_allocated"
    /\ \E i \in tree : i.data = "FREED"
    /\ \E i \in tree : i.data = "ALLOCD"
    /\ mapd_size > 0 /\ allocd_size > 0

\* a reallocd event for (begin_old, [begin_new, end_new)) whose new range
\* overlaps the interval stored at begin_old
ReallocdOverlapping(begin_old, begin_new, end_new) ==
    /\ TreeAt(tree, begin_old) # {}
    /\ \E i \in TreeAt(tree, begin_old) : i.begin < end_new /\ i.end > begin_new
    /\ Reallocd(begin_old, begin_new, end_new)

\* C11 as stated: when reallocd finds an interval at old_begin that the new
\* range overlaps, every address of that interval outside [new_begin, new_end)
\* is Freed in the lifecycle store once the old entry is dropped, and
\* [new_begin, new_end) is Allocated when the call commits.
C11_RemaindersFreed ==
    [][ /\ pc = "idle" =>
              \A b \in Addrs, r \in Ranges :
                  ReallocdOverlapping(b, r[1], r[2]) =>
                      \A i \in TreeAt(tree, b) : \A a \in i.begin .. (i.end - 1) :
                          (a < r[1] \/ a >= r[2]) => TreeStateAt(tree', a) = "FREED"
        /\ pc = "commit" =>
              \A a \in cur.begin .. (cur.end - 1) : TreeStateAt(tree', a) = "ALLOCD"
      ]_vars

\* C12: a freed event never aborts the run.  When a stored interval covers
\* begin, that interval keeps its bounds and becomes Freed whatever its state
\* was and wherever it starts; when none does, exactly [begin, begin+1)
\* becomes Freed.  No other address changes state, in either store.
C12_FreeTotal ==
    [][ pc = "idle" =>
          \A b \in Addrs : Freed(b) =>
              LET q == TreeAt(tree, b)
                  lo == IF q = {} THEN b ELSE (CHOOSE i \in q : TRUE).begin
                  hi == IF q = {} THEN b + 1 ELSE (CHOOSE i \in q : TRUE).end
              IN /\ pc' = "idle" /\ abort' = ""
                 /\ tree' = (tree \ q) \cup {AddrIval(lo, hi, "FREED")}
                 /\ \A a \in Addrs :
                       /\ TreeStateAt(tree', a) =
                             IF lo <= a /\ a < hi THEN "FREED" ELSE TreeStateAt(tree, a)
                       /\ imap'[a] = IF lo <= a /\ a < hi THEN "FREED" ELSE imap[a]
      ]_vars
\* a Freed interval of two bytes next to a Freed interval of one byte
C12_Witness ==
    /\ pc = "idle"
    /\ \E b \in Addrs :
          \/ {AddrIval(b, b + 2, "FREED"), AddrIval(b + 2, b + 3, "FREED")} \subseteq tree
          \/ {AddrIval(b, b + 1, "FREED"), AddrIval(b + 1, b + 3, "FREED")} \subseteq tree

\* a mapd or unmapd trace event
MapEvent ==
    \/ \E f \in BOOLEAN, r \in MapRanges : Mapd(f, r[1], r[2])
    \/ \E r \in MapRanges : Unmapd(r[1], r[2])

\* C13 as stated: a mapd or unmapd event leaves allocd_size as it was, for
\* any range, ranges over Allocated intervals included; every other step
\* (allocate, free, reallocate, revoke, reuse notification) leaves mapd_size
\* as it was.
C13_AggregatesIndependent ==
    [][ /\ (pc = "idle" /\ MapEvent) => allocd_size' = allocd_size
        /\ ~MapEvent => mapd_size' = mapd_size
      ]_vars

\* C14: in every state, allocd_size is the total length of the Allocated
\* intervals of the coalesced map and mapd_size the total length of its Mapped
\* intervals: the windowed re-sums of _update add up to a rescan of the map.
C14_AggregatesAreTotals ==
    /\ allocd_size = SumLen({i \in IntervalMapItems(imap) : i.data = "ALLOCD"})
    /\ mapd_size = SumLen({i \in IntervalMapItems(imap) : i.data = "MAPD"})
\* Allocated, Mapped and Freed runs side by side after an allocation
\* over mapped memory
C14_Witness ==
    /\ pc = "idle"
    /\ allocd_size > 0 /\ mapd_size > 0
    /\ \E a \in Addrs : imap[a] = "FREED"

\* C15: when allocd(b, e) commits, the point query of the lifecycle store
\* at every address of [b, e) returns the one Allocated interval [b, e), and
\* the coalesced map holds ALLOCD there, whatever occupied the range when the
\* call was made and whatever the revoker did during the notification.
C15_RangeAllocated ==
    [][ pc = "commit" =>
          /\ pc' = "idle"
          /\ \A a \in cur.begin .. (cur.end - 1) :
                /\ TreeAt(tree', a) = {AddrIval(cur.begin, cur.end, "ALLOCD")}
                /\ imap'[a] = "ALLOCD"
      ]_vars
\* an allocation has committed in the middle of revoked space: it lies
\* between two Revoked intervals
C15_Witness ==
    /\ pc = "idle"
    /\ \E i \in tree, j \in tree, k \in tree :
          /\ i.data = "REVOKED" /\ j.data = "ALLOCD" /\ k.data = "REVOKED"
          /\ i.end = j.begin /\ j.end = k.begin

C16_EmissionsApart ==
    Len(emissions) = 2 => emissions[2] - emissions[1] >= call_period_ms

\* C17 as stated: the chunk string of a rendered pool has exactly 60 symbols
\* whatever the pool size.
C17_SixtySymbols ==
    chunks # <<>> => Len(chunks) = POOL_MAP_RESOLUTION_IN_SYMBOLS
\* C17, amended: the chunk string of a rendered pool has exactly 60 symbols
\* when the pool is at least 60 bytes long, whether or not its size is
\* divisible by 60, and exactly one symbol when the pool is shorter than 60
\* bytes; the chunks are non-empty and partition the pool in address order.
C17_SymbolsByPoolSize ==
    chunks # <<>> =>
        /\ Len(chunks) = IF pool[2] - pool[1] >= POOL_MAP_RESOLUTION_IN_SYMBOLS
                         THEN POOL_MAP_RESOLUTION_IN_SYMBOLS ELSE 1
        /\ chunks[1][1] = pool[1] /\ chunks[Len(chunks)][2] = pool[2]
        /\ \A k \in 1 .. Len(chunks) : chunks[k][1] < chunks[k][2]
        /\ \A k \in 1 .. (Len(chunks) - 1) : chunks[k][2] = chunks[k + 1][1]
\* a pool of 59 bytes has been rendered as one chunk
C17_Witness ==
    /\ pool[2] - pool[1] = POOL_MAP_RESOLUTION_IN_SYMBOLS - 1
    /\ Len(chunks) = 1

\* the addresses of the chunk that the coalesced map has data for
ChunkCovered == {a \in chunk[1] .. (chunk[2] - 1) : coalesced[a + 1] # "None"}

\* C18: a chunk is classified by the first matching rule: reused ('~') when
\* it overlaps a buffered reused range; else freed ('0') when every covered
\* address is Mapped, Unmapped, Freed or Revoked; else allocated ('#') when
\* every covered address is Allocated and at least 80% of the chunk is
\* covered; else fragmented ('=').  Coverage of exactly 80% gives allocated.
C18_ChunkRules ==
    chunk_stat # "" =>
        chunk_stat =
            IF \E r \in addr_ivals_reused : r[1] < chunk[2] /\ r[2] > chunk[1] THEN "~"
            ELSE IF \A a \in ChunkCovered :
                        coalesced[a + 1] \in {"MAPD", "UNMAPD", "FREED", "REVOKED"}
                 THEN "0"
            ELSE IF /\ \A a \in ChunkCovered : coalesced[a + 1] = "ALLOCD"
                    /\ 5 * Cardinality(ChunkCovered) >= 4 * (chunk[2] - chunk[1])
                 THEN "#"
            ELSE "="
\* a chunk of five bytes, four of them Allocated and one without data, is
\* classified allocated: coverage of exactly 80%
C18_Witness ==
    /\ chunk_stat = "#"
    /\ chunk[2] - chunk[1] = 5
    /\ Cardinality(ChunkCovered) = 4

\* C19 as stated: once finish() has run, every object the tracker created
\* has exactly one row in 'allocs': the insert-allocation callback was called
\* exactly once with its object id, objects released through a realloc to
\* size zero and objects reallocated in place included.
C19_OneRowPerObject ==
    finished => \A oid \in 1 .. (nextoid - 1) : allocs[oid] = 1

\* the ranges the subscribed revoker passes to alloc_state.revoked, one call
\* each, for a notification delivered in the current state
RevokerRanges ==
    IF RevokerIsNaive
    THEN {<<i.begin, i.end>> : i \in NaiveIntervals(tree, cur.args[1], cur.args[2])}
    ELSE {<<CompactingBatch(tree)[k].begin, CompactingBatch(tree)[k].end>> :
             k \in 1 .. Len(CompactingBatch(tree))}

\* C21: no range a Naive or Compacting revoker passes to the allocator
\* model's revoked overlaps an Allocated interval, and its revocations do not
\* fail; the 'still allocated' assertion fails only in a revoked event of the
\* trace itself.
C21_RevokerKeepsPrecondition ==
    [][ /\ pc = "publish" =>
              /\ \A r \in RevokerRanges : RevokedPrecondition(tree, <<r>>)
              /\ abort' # "still_allocated"
        /\ (abort = "" /\ abort' = "still_allocated") =>
              /\ pc = "idle"
              /\ \E bes \in RevokeBatches : Revoked(bes)
      ]_vars
\* a revoker has revoked an interval that touches an Allocated interval
C21_Witness ==
    /\ pc = "commit" /\ delivered = 1
    /\ \E i \in tree, j \in tree :
          /\ i.data = "REVOKED" /\ j.data = "ALLOCD"
          /\ (i.end = j.begin \/ j.end = i.begin)
          /\ \E f \in cur.pre : f.data = "FREED" /\ i.begin <= f.begin /\ f.end <= i.end

\* C22 as stated: in traces without mapd/unmapd events the two interval
\* stores agree after every event: at every address the lifecycle store and
\* the coalesced map report the same state, or both none.
C22_StoresAgree ==
    pc = "idle" => \A a \in Addrs : TreeStateAt(tree, a) = imap[a]

\* the sum of the sizes held in the lookup v
LookupSum(v) == SumLen({AddrIval(a, a + v[a], "ALLOCD") : a \in Addrs})
\* by how much the accounting model's allocd_size exceeds the lookup's sum
AccountExcess == account_allocd_size - LookupSum(va2sz)

\* C24 as stated: in the accounting model allocd_size equals the sum of the
\* sizes in the lookup, after any sequence of allocate, free and reallocate
\* events.
C24_SizeIsLookupSum == account_allocd_size = LookupSum(va2sz)
\* C24, amended: in the accounting model allocd_size is never less than the
\* sum of the sizes in the lookup.  A free changes both alike or nothing; an
\* allocation at a start whose entry the lookup still holds (for a reallocate:
\* after the old start was released) replaces the entry without subtracting
\* its size, and allocd_size exceeds the sum by that size more; any other
\* allocation adds its size to both.
C24_SizeIsLookupSumPlusReplaced ==
    [][ /\ AccountExcess' >= AccountExcess /\ AccountExcess >= 0
        /\ \A r \in Ranges :
              AccountAllocd(r[1], r[2]) => AccountExcess' = AccountExcess + va2sz[r[1]]
        /\ \A b \in Addrs : AccountFreed(b) => AccountExcess' = AccountExcess
        /\ \A b \in Addrs, r \in Ranges :
              AccountReallocd(b, r[1], r[2]) =>
                  AccountExcess' = AccountExcess + (IF r[1] = b THEN 0 ELSE va2sz[r[1]])
      ]_vars
\* allocate(0,1); allocate(0,2): allocd_size is 3, the lookup holds 2
C24_Witness ==
    /\ va2sz = [a \in Addrs |-> IF a = 0 THEN 2 ELSE 0]
    /\ account_allocd_size = 3

\* C23: on clean traces the accounting model and the full allocator model,
\* given the same events, report the same allocd_size after every event,
\* with either revoker subscribed to the full model; the lookup then holds
\* exactly the starts and sizes of the Allocated intervals.
C23_AccountingAgrees ==
    pc = "idle" =>
        /\ account_allocd_size = allocd_size
        /\ \A a \in Addrs :
              va2sz[a] = SumLen({i \in tree : i.data = "ALLOCD" /\ i.begin = a})
\* both models hold two bytes after a reuse that made the revoker revoke
C23_Witness ==
    /\ pc = "idle"
    /\ account_allocd_size = 2 /\ allocd_size = 2
    /\ \E i \in tree : i.data = "REVOKED"

\* address a is Freed or Revoked in the store t
FreedOrRevokedAt(t, a) == TreeStateAt(t, a) \in {"FREED", "REVOKED"}

\* C25: the batch the Compacting revoker builds from the lifecycle store, in
\* every reachable state of the store, is in ascending address order with its
\* intervals pairwise disjoint and not touching; each is a maximal run of
\* adjacent Freed/Revoked intervals and contains a Freed interval; every
\* Freed interval lies inside exactly one of them; the batching loop's
\* 'failed to coalesce' assertion does not fail.
C25_BatchOfMaximalRuns ==
    LET c == CompactingCoalesce(tree, SortedIvals(CompactingIntervals(tree, 0, 0)), <<>>)
        b == c.batch
    IN /\ c.status = "ok" /\ abort # "coalesce_bug"
       /\ \A k \in 1 .. (Len(b) - 1) : b[k].end < b[k + 1].begin
       /\ \A k \in 1 .. Len(b) :
             /\ b[k].begin < b[k].end
             /\ \A a \in b[k].begin .. (b[k].end - 1) : FreedOrRevokedAt(tree, a)
             /\ b[k].begin > 0 => ~FreedOrRevokedAt(tree, b[k].begin - 1)
             /\ b[k].end < MaxAddr => ~FreedOrRevokedAt(tree, b[k].end)
             /\ \E i \in tree : i.data = "FREED" /\ b[k].begin <= i.begin /\ i.end <= b[k].end
       /\ \A i \in tree : i.data = "FREED" =>
             Cardinality({k \in 1 .. Len(b) : b[k].begin <= i.begin /\ i.end <= b[k].end}) = 1
\* a notification to the Compacting revoker whose batch has an interval
\* merged from a Freed and a Revoked interval, next to an Allocated interval
C25_Witness ==
    /\ pc = "publish" /\ RevokerIsCompacting
    /\ \E k \in 1 .. Len(CompactingBatch(tree)) : \E i \in tree, j \in tree, x \in tree :
          /\ i.data = "FREED" /\ j.data = "REVOKED" /\ x.data = "ALLOCD"
          /\ CompactingBatch(tree)[k].begin = Min(i.begin, j.begin)
          /\ CompactingBatch(tree)[k].end = Max(i.end, j.end)
          /\ (x.begin = CompactingBatch(tree)[k].end \/ x.end = CompactingBatch(tree)[k].begin)

====
